---- MODULE Spec2Model ----
(***************************************************************************)
(* Model of arcloud.py: the "cloud only" flag tool for ArDrive CLI data    *)
(* folders.  The `sync` table is an append-style event log; the latest     *)
(* row per fileId is the entity's current state.  The tool resolves a      *)
(* path to a fileId and then lists a folder (ls), marks a subtree as       *)
(* cloud-only (cloud) or marks a subtree and its ancestors as not          *)
(* cloud-only (local).  All writes go through one sqlite3 connection and   *)
(* are committed once, at the very end of __main__.                        *)
(***************************************************************************)
EXTENDS Integers, Sequences, FiniteSets, TLC

VARIABLES
  sync,        \* the immutable columns of the sync table: row id -> record
  disk,        \* committed cloudOnly column: row id -> 0/1
  txn,         \* cloudOnly column as seen through the open connection
  pc,          \* position of the running invocation
  act,         \* args.action
  path,        \* os.path.abspath (args.path)
  cands,       \* getIdForPath: rows of the cursor not yet visited
  baseId,      \* result of getIdForPath
  stack,       \* call stack of getFolderContent / markContentsAs frames
  parentId,    \* performLocal: loop variable
  ancIds,      \* performLocal: idsToMark
  j,           \* position inside the running executemany
  out,         \* lines printed so far
  err,         \* the exception that ended the invocation, or "none"
  runs,        \* number of invocations started so far
  pre,         \* history: disk when the invocation started
  prev,        \* history: the preceding invocation, if it was a committed cloud
  lastLatest,  \* history: row returned by the last getLatestForId per fileId
  visited      \* history: the folders markContentsAs was called on, in order

vars == <<sync, disk, txn, pc, act, path, cands, baseId, stack, parentId,
          ancIds, j, out, err, runs, pre, prev, lastLatest, visited>>

----------------------------------------------------------------------------
(* Bounds of the model.                                                    *)

\* number of invocations of the tool in one behaviour
MaxRuns == 2
\* nesting of markContentsAs calls after which the interpreter gives up
MaxDepth == 4
\* ancestors collected by performLocal before memory runs out
MaxWalk == 5

----------------------------------------------------------------------------
(* The ledgers the tool is run on.                                         *)

\* Python's None (SQL NULL)
NULL == 0

\* fileIds that have rows in the table
Entities == 1 .. 5

Actions == {"ls", "cloud", "local"}

\* the path of an object named nm inside the folder par
PathOf(par, nm) == <<par, nm>>

Row(t, ty, fid, nm, par) ==
  [unixTime |-> t, entityType |-> ty, fileId |-> fid, fileName |-> nm,
   filePath |-> PathOf(par, nm), parentFolderId |-> par]

\* Current rows: the drive root 1, folders 2 and 3 (names out of id order),
\* files 4 and 5 in one folder (names out of id order).  k2 may be the
\* fileId 9, which has no row at all (a dangling parent reference).
CurrentRows(k2, k3, k4) ==
  << Row(2, "folder", 1, 0, NULL),
     Row(2, "folder", 2, 2, k2),
     Row(2, "folder", 3, 1, k3),
     Row(2, "file", 4, 4, k4),
     Row(2, "file", 5, 3, k4) >>

\* Superseded rows, written at time t.
\*   folderMoved:  folder 3 used to live in the other folder, as "5"
\*   fileMoved:    file 4 used to live in another folder
\*   fileRenamed:  file 4 used to have the name and path file 5 has now
OldRows(h, t, k3, k4) ==
  CASE h = "none" -> << >>
    [] h = "folderMoved" -> << Row(t, "folder", 3, 5, 3 - k3) >>
    [] h = "fileMoved" -> << Row(t, "file", 4, 4, (k4 % 3) + 1) >>
    [] h = "fileRenamed" -> << Row(t, "file", 4, 3, k4) >>

Histories == {"none", "folderMoved", "fileMoved", "fileRenamed"}

\* rows get their id in the order they were written
Ledger(h, t, k2, k3, k4) == OldRows(h, t, k3, k4) \o CurrentRows(k2, k3, k4)

Ledgers(times) ==
  { Ledger(h, t, k2, k3, k4) :
      h \in Histories, t \in times, k2 \in {1, 3, 9}, k3 \in {1, 2}, k4 \in {1, 2, 3} }

RowIds == DOMAIN sync

\* the paths an invocation may be given: every recorded path and one that
\* was never recorded
Paths == { sync[r].filePath : r \in RowIds } \cup { PathOf(9, 9) }

----------------------------------------------------------------------------
(* Queries.                                                                *)

\* getLatestForId with the order reversed (ORDER BY unixTime ASC)
getOldestForId(fileId) ==
  { r \in DOMAIN sync :
      /\ sync[r].fileId = fileId
      /\ \A q \in DOMAIN sync :
            sync[q].fileId = fileId => sync[r].unixTime <= sync[q].unixTime }

\* getLatestForId: SELECT ... WHERE fileId = ? ORDER BY unixTime DESC LIMIT 1.
\* The set of rows the query may return: empty when fetchone () gives None,
\* and every row of maximal unixTime otherwise, since the ORDER BY names no
\* second key.
getLatestForId(fileId) ==
  { r \in RowIds :
      /\ sync[r].fileId = fileId
      /\ \A q \in RowIds : sync[q].fileId = fileId => sync[q].unixTime <= sync[r].unixTime }

\* getIdForPath: the rows selected by WHERE filePath = ?
PathCandidates(p) == { r \in RowIds : sync[r].filePath = p }

\* getIdForPath without the check against the latest row
AcceptAlways(data, p) == TRUE

\* getIdForPath: the test that accepts a candidate
PathAccepts(data, p) == sync[data].filePath = p

\* getFolderContent: SELECT DISTINCT fileId WHERE parentFolderId = ?
\* (a comparison with NULL selects nothing)
DistinctChildIds(folderId) ==
  IF folderId = NULL THEN {}
  ELSE { sync[r].fileId : r \in { q \in RowIds : sync[q].parentFolderId = folderId } }

\* getFolderContent without the check against the latest row
KeepAlways(data, folderId) == TRUE

\* getFolderContent: the test that keeps a candidate
StillInFolder(data, folderId) == sync[data].parentFolderId = folderId

----------------------------------------------------------------------------
(* Helpers of the program text.                                            *)

\* the value written by markContentsAs: performCloud passes 1, performLocal 0
MarkValue(a) == IF a = "cloud" THEN 1 ELSE 0

\* performLs without the calls of sort ()
NoSort(s) == s

\* list.sort () on a list of names
RECURSIVE Insert(_, _)
Insert(x, s) ==
  IF s = << >> THEN << x >>
  ELSE IF x <= Head(s) THEN << x >> \o s
  ELSE << Head(s) >> \o Insert(x, Tail(s))

RECURSIVE SortNames(_)
SortNames(s) == IF s = << >> THEN << >> ELSE Insert(Head(s), SortNames(Tail(s)))

\* the fileName column of a list of rows
NamesOf(rows) == [ n \in 1 .. Len(rows) |-> sync[rows[n]].fileName ]

\* performLs: the lines printed for the rows returned by getFolderContent
LsLines(content) ==
  LET files == NamesOf(SelectSeq(content, LAMBDA d : sync[d].entityType = "file"))
      folders == NamesOf(SelectSeq(content, LAMBDA d : sync[d].entityType = "folder"))
      fs == SortNames(files)
      ds == SortNames(folders)
  IN  [ n \in 1 .. Len(ds) |-> [name |-> ds[n], slash |-> TRUE] ]
      \o [ n \in 1 .. Len(fs) |-> [name |-> fs[n], slash |-> FALSE] ]

\* a fresh frame: idsToMark as given, the DISTINCT cursor of getFolderContent
\* opened on the folder
Frame(folderId, ids) ==
  [base |-> folderId, ids |-> ids, todo |-> DistinctChildIds(folderId),
   content |-> << >>, i |-> 1, phase |-> "enum"]

Top == stack[Len(stack)]

SetTop(f) == [stack EXCEPT ![Len(stack)] = f]

Pop == SubSeq(stack, 1, Len(stack) - 1)

NoPrev == [base |-> NULL, pre |-> << >>]

NoLatest == [ e \in Entities |-> 0 ]

\* the exception leaves __main__: the connection is closed without commit,
\* and the locals of the functions are gone
Raise(e) ==
  /\ pc' = "failed"
  /\ err' = e
  /\ txn' = disk
  /\ stack' = << >>
  /\ cands' = {}
  /\ parentId' = NULL
  /\ ancIds' = << >>
  /\ j' = 1
  /\ lastLatest' = NoLatest
  /\ visited' = << >>
  /\ UNCHANGED <<sync, disk, act, path, baseId, out, runs, pre, prev>>

----------------------------------------------------------------------------
(* The invocation, step by step.                                           *)

\* a ledger whose superseded rows were written at one of `times`, every row
\* cloud-only, and `done` invocations behind it
InitWith(times, done) ==
  /\ sync \in Ledgers(times)
  /\ disk = [ r \in DOMAIN sync |-> 1 ]
  /\ txn = disk
  /\ pre = disk
  /\ pc = "idle"
  /\ act = "ls"
  /\ path = PathOf(9, 9)
  /\ cands = {}
  /\ baseId = NULL
  /\ stack = << >>
  /\ parentId = NULL
  /\ ancIds = << >>
  /\ j = 1
  /\ out = << >>
  /\ err = "none"
  /\ runs = done
  /\ prev = NoPrev
  /\ lastLatest = NoLatest
  /\ visited = << >>

\* Every fileId has a single latest row: superseded rows are older.  These
\* are the ledgers on which "the current row" of an entity is defined; equal
\* unixTimes are the subject of InitTies.
Init == InitWith({1}, 0)

\* superseded rows carry the unixTime of the row that replaced them
InitTies == InitWith({2}, MaxRuns - 1)

\* as Init, for a single invocation
InitOnce == InitWith({1}, MaxRuns - 1)

\* __main__, lines 217-226: a new process opens the database and starts
\* getIdForPath
Start(a, p) ==
  /\ pc = "idle"
  /\ runs < MaxRuns
  /\ runs' = runs + 1
  /\ act' = a
  /\ path' = p
  /\ cands' = PathCandidates(p)
  /\ pc' = "resolve"
  /\ UNCHANGED <<sync, disk, txn, baseId, stack, parentId, ancIds, j, out, err,
                 pre, prev, lastLatest, visited>>

\* getIdForPath, lines 102-108: one iteration of the cursor loop, or the
\* return None after it
GetIdForPathStep ==
  /\ pc = "resolve"
  /\ IF cands = {}
     THEN /\ baseId' = NULL
          /\ pc' = "dispatch"
          /\ UNCHANGED <<cands, lastLatest, visited>>
     ELSE \E r \in cands : \E data \in getLatestForId(sync[r].fileId) :
            /\ lastLatest' = [lastLatest EXCEPT ![sync[r].fileId] = data]
            /\ IF PathAccepts(data, path)
               THEN /\ baseId' = sync[r].fileId
                    /\ pc' = "dispatch"
                    /\ cands' = {}
               ELSE /\ cands' = cands \ {r}
                    /\ UNCHANGED <<baseId, pc, visited>>
  /\ UNCHANGED <<sync, disk, txn, act, path, stack, parentId, ancIds, j, out,
                 err, runs, pre, prev, visited>>

\* markContentsAs, lines 167-170, entered from the frames `below`: idsToMark
\* starts with the id of the latest row of the folder (subscripting None
\* raises TypeError), and getFolderContent is called
EnterMark(below, folderId) ==
  IF getLatestForId(folderId) = {}
  THEN Raise("TypeError")
  ELSE \E d \in getLatestForId(folderId) :
         /\ lastLatest' = [lastLatest EXCEPT ![folderId] = d]
         /\ stack' = Append(below, Frame(folderId, << d >>))
         /\ visited' = Append(visited, folderId)
         /\ pc' = "mark"
         /\ UNCHANGED <<sync, disk, txn, act, path, cands, baseId, parentId,
                        ancIds, j, out, err, runs, pre, prev>>

\* __main__, lines 227-232: the action is dispatched on the resolved baseId
Dispatch ==
  /\ pc = "dispatch"
  /\ IF act = "ls"
     THEN /\ stack' = << Frame(baseId, << >>) >>
          /\ pc' = "ls"
          /\ UNCHANGED <<sync, disk, txn, act, path, cands, baseId, parentId,
                         ancIds, j, out, err, runs, pre, prev, lastLatest, visited>>
     ELSE EnterMark(<< >>, baseId)

\* getFolderContent, lines 126-133: one iteration of the cursor loop, or the
\* return after it
GetFolderContentStep ==
  /\ pc \in {"ls", "mark"}
  /\ Top.phase = "enum"
  /\ IF Top.todo = {}
     THEN /\ stack' = SetTop([Top EXCEPT !.phase = IF pc = "ls" THEN "print" ELSE "loop"])
          /\ UNCHANGED lastLatest
     ELSE \E c \in Top.todo : \E data \in getLatestForId(c) :
            /\ lastLatest' = [lastLatest EXCEPT ![c] = data]
            /\ stack' = SetTop([Top EXCEPT
                 !.todo = @ \ {c},
                 !.content = IF StillInFolder(data, Top.base) THEN Append(@, data) ELSE @])
  /\ UNCHANGED <<sync, disk, txn, pc, act, path, cands, baseId, parentId, ancIds,
                 j, out, err, runs, pre, prev, visited>>

\* performLs, lines 142-158, and the end of __main__ for ls (no commit)
PerformLsPrint ==
  /\ pc = "ls"
  /\ Top.phase = "print"
  /\ out' = LsLines(Top.content)
  /\ stack' = << >>
  /\ lastLatest' = NoLatest
  /\ pc' = "done"
  /\ UNCHANGED <<sync, disk, txn, act, path, cands, baseId, parentId, ancIds, j,
                 err, runs, pre, prev, visited>>

\* markContentsAs without the recursion: a folder is collected like a file
MarkLoopStepFlat ==
  /\ pc = "mark"
  /\ Top.phase = "loop"
  /\ IF Top.i > Len(Top.content)
     THEN /\ stack' = SetTop([Top EXCEPT !.phase = "update"])
          /\ j' = 1
     ELSE /\ stack' = SetTop([Top EXCEPT !.i = @ + 1, !.ids = Append(@, Top.content[Top.i])])
          /\ UNCHANGED j
  /\ UNCHANGED <<sync, disk, txn, pc, act, path, cands, baseId, parentId, ancIds,
                 out, err, runs, pre, prev, lastLatest, visited>>

\* markContentsAs, lines 171-175: one iteration of the loop over content (a
\* file is collected, a folder is a recursive call), or the end of the loop
MarkLoopStep ==
  /\ pc = "mark"
  /\ Top.phase = "loop"
  /\ IF Top.i > Len(Top.content)
     THEN /\ stack' = SetTop([Top EXCEPT !.phase = "update"])
          /\ j' = 1
          /\ UNCHANGED <<sync, disk, txn, pc, act, path, cands, baseId, parentId,
                         ancIds, out, err, runs, pre, prev, lastLatest, visited>>
     ELSE LET c == Top.content[Top.i]
          IN  IF sync[c].entityType = "file"
              THEN /\ stack' = SetTop([Top EXCEPT !.i = @ + 1, !.ids = Append(@, c)])
                   /\ UNCHANGED <<sync, disk, txn, pc, act, path, cands, baseId,
                                  parentId, ancIds, j, out, err, runs, pre, prev,
                                  lastLatest, visited>>
              ELSE IF Len(stack) >= MaxDepth
              THEN Raise("RecursionError")
              ELSE EnterMark(SetTop([Top EXCEPT !.i = @ + 1]), sync[c].fileId)

\* markContentsAs on a connection in autocommit mode: every UPDATE is durable
\* at once
MarkUpdateStepAutocommit ==
  /\ pc = "mark"
  /\ Top.phase = "update"
  /\ IF j <= Len(Top.ids)
     THEN /\ txn' = [txn EXCEPT ![Top.ids[j]] = MarkValue(act)]
          /\ disk' = [disk EXCEPT ![Top.ids[j]] = MarkValue(act)]
          /\ j' = j + 1
          /\ UNCHANGED <<stack, pc, visited>>
     ELSE /\ stack' = Pop
          /\ pc' = IF Len(stack) > 1 THEN "mark"
                   ELSE IF act = "cloud" THEN "commit" ELSE "walk0"
          /\ j' = 1
          /\ UNCHANGED <<txn, disk, visited>>
  /\ UNCHANGED <<sync, act, path, cands, baseId, parentId, ancIds, out, err,
                 runs, pre, prev, lastLatest, visited>>

\* markContentsAs, lines 177-181: executemany updates one row of idsToMark, or
\* is through and the call returns
MarkUpdateStep ==
  /\ pc = "mark"
  /\ Top.phase = "update"
  /\ IF j <= Len(Top.ids)
     THEN /\ txn' = [txn EXCEPT ![Top.ids[j]] = MarkValue(act)]
          /\ j' = j + 1
          /\ UNCHANGED <<stack, pc, visited>>
     ELSE /\ stack' = Pop
          /\ pc' = IF Len(stack) > 1 THEN "mark"
                   ELSE IF act = "cloud" THEN "commit" ELSE "walk0"
          /\ j' = 1
          /\ UNCHANGED txn
  /\ UNCHANGED <<sync, disk, act, path, cands, baseId, parentId, ancIds, out, err,
                 runs, pre, prev, lastLatest, visited>>

\* performLocal, lines 200-201
WalkInit ==
  /\ pc = "walk0"
  /\ IF getLatestForId(baseId) = {}
     THEN Raise("TypeError")
     ELSE \E d \in getLatestForId(baseId) :
            /\ lastLatest' = [lastLatest EXCEPT ![baseId] = d]
            /\ parentId' = sync[d].parentFolderId
            /\ ancIds' = << >>
            /\ pc' = "walk"
            /\ UNCHANGED <<sync, disk, txn, act, path, cands, baseId, stack, j,
                           out, err, runs, pre, prev, visited>>

\* performLocal with a loop that stops after the direct parent
WalkStepOnce ==
  /\ pc = "walk"
  /\ IF getLatestForId(parentId) = {} \/ Len(ancIds) >= 1
     THEN /\ pc' = "walkUpdate"
          /\ j' = 1
          /\ UNCHANGED <<sync, disk, txn, act, path, cands, baseId, stack,
                         parentId, ancIds, out, err, runs, pre, prev, lastLatest, visited>>
     ELSE \E d \in getLatestForId(parentId) :
            /\ lastLatest' = [lastLatest EXCEPT ![parentId] = d]
            /\ ancIds' = Append(ancIds, d)
            /\ parentId' = sync[d].parentFolderId
            /\ UNCHANGED <<sync, disk, txn, pc, act, path, cands, baseId, stack, j,
                           out, err, runs, pre, prev, visited>>

\* performLocal with a loop that subscripts data before testing it for None
WalkStepNoBreak ==
  /\ pc = "walk"
  /\ IF getLatestForId(parentId) = {}
     THEN Raise("TypeError")
     ELSE IF Len(ancIds) >= MaxWalk
     THEN Raise("MemoryError")
     ELSE \E d \in getLatestForId(parentId) :
            /\ lastLatest' = [lastLatest EXCEPT ![parentId] = d]
            /\ ancIds' = Append(ancIds, d)
            /\ parentId' = sync[d].parentFolderId
            /\ UNCHANGED <<sync, disk, txn, pc, act, path, cands, baseId, stack, j,
                           out, err, runs, pre, prev, visited>>

\* performLocal, lines 202-207: one iteration of the while loop
WalkStep ==
  /\ pc = "walk"
  /\ IF getLatestForId(parentId) = {}
     THEN /\ pc' = "walkUpdate"
          /\ j' = 1
          /\ UNCHANGED <<sync, disk, txn, act, path, cands, baseId, stack,
                         parentId, ancIds, out, err, runs, pre, prev, lastLatest, visited>>
     ELSE IF Len(ancIds) >= MaxWalk
     THEN Raise("MemoryError")
     ELSE \E d \in getLatestForId(parentId) :
            /\ lastLatest' = [lastLatest EXCEPT ![parentId] = d]
            /\ ancIds' = Append(ancIds, d)
            /\ parentId' = sync[d].parentFolderId
            /\ UNCHANGED <<sync, disk, txn, pc, act, path, cands, baseId, stack, j,
                           out, err, runs, pre, prev, visited>>

\* performLocal, lines 209-213: executemany updates one row, or is through
WalkUpdateStep ==
  /\ pc = "walkUpdate"
  /\ IF j <= Len(ancIds)
     THEN /\ txn' = [txn EXCEPT ![ancIds[j]] = 0]
          /\ j' = j + 1
          /\ UNCHANGED pc
     ELSE /\ pc' = "commit"
          /\ UNCHANGED <<txn, j, visited>>
  /\ UNCHANGED <<sync, disk, act, path, cands, baseId, stack, parentId, ancIds,
                 out, err, runs, pre, prev, lastLatest, visited>>

\* __main__, lines 233-234: db.commit () makes the writes of the connection
\* durable, and the process ends
Commit ==
  /\ pc = "commit"
  /\ disk' = txn
  /\ pc' = "done"
  /\ parentId' = NULL
  /\ ancIds' = << >>
  /\ j' = 1
  /\ lastLatest' = NoLatest
  /\ visited' = << >>
  /\ UNCHANGED <<sync, txn, act, path, cands, baseId, stack, out, err, runs, pre,
                 prev>>

\* The process is interrupted, or a statement raises sqlite3.Error: nothing
\* catches it, and contextlib.closing closes the connection without commit.
Abort ==
  /\ pc \notin {"idle", "done", "failed"}
  /\ Raise("Aborted")

\* The process is gone; the next one will find what is on disk.
Exit ==
  /\ pc \in {"done", "failed"}
  /\ pc' = "idle"
  /\ prev' = IF pc = "done" /\ act = "cloud" THEN [base |-> baseId, pre |-> pre]
             ELSE NoPrev
  /\ pre' = disk
  /\ txn' = disk
  /\ act' = "ls"
  /\ path' = PathOf(9, 9)
  /\ baseId' = NULL
  /\ out' = << >>
  /\ err' = "none"
  /\ UNCHANGED <<sync, disk, cands, stack, parentId, ancIds, j, runs, lastLatest, visited>>

Next ==
  \/ \E a \in Actions, p \in Paths : Start(a, p)
  \/ GetIdForPathStep
  \/ Dispatch
  \/ GetFolderContentStep
  \/ PerformLsPrint
  \/ MarkLoopStep
  \/ MarkUpdateStep
  \/ WalkInit
  \/ WalkStep
  \/ WalkUpdateStep
  \/ Commit
  \/ Abort
  \/ Exit

\* the steps of the running program
Run ==
  \/ GetIdForPathStep
  \/ Dispatch
  \/ GetFolderContentStep
  \/ PerformLsPrint
  \/ MarkLoopStep
  \/ MarkUpdateStep
  \/ WalkInit
  \/ WalkStep
  \/ WalkUpdateStep
  \/ Commit

Spec == Init /\ [][Next]_vars

\* ledgers with ties on unixTime
SpecTies == InitTies /\ [][Next]_vars

\* The program is single-threaded and synchronous: as long as it is not
\* interrupted, it takes its next step.
LiveSpec == InitOnce /\ [][Next]_vars /\ WF_vars(Run)

----------------------------------------------------------------------------
(* The vocabulary of the properties: the current-state projection and the  *)
(* folder tree it describes, stated on the table itself.                   *)

\* the rows of e that are later than every other row of e (one row, or none
\* when e has no row or its latest unixTime is shared)
LatestRows(e) ==
  { r \in RowIds :
      /\ sync[r].fileId = e
      /\ \A q \in RowIds \ {r} : sync[q].fileId = e => sync[q].unixTime < sync[r].unixTime }

Cur(e) == CHOOSE r \in LatestRows(e) : TRUE

Known == { e \in Entities : LatestRows(e) # {} }

ParentOf(e) == sync[Cur(e)].parentFolderId

Children(f) == { e \in Known : ParentOf(e) = f }

RECURSIVE Closure(_)
Closure(S) ==
  LET T == S \cup { e \in Known : ParentOf(e) \in S }
  IN  IF T = S THEN S ELSE Closure(T)

\* f and everything reachable from it through current parent links
Subtree(f) == Closure({f})

RECURSIVE Up(_, _)
Up(e, seen) ==
  LET p == ParentOf(e)
  IN  IF p \notin Known \/ p \in seen THEN seen ELSE Up(p, seen \cup {p})

\* the folders on the current parent chain of f
Ancestors(f) == Up(f, {})

Acyclic == \A e \in Known : e \notin Ancestors(e)

CurRowsOf(S) == { Cur(e) : e \in S }

\* markContentsAs has just returned to performCloud or performLocal
MarkReturned == (act = "cloud" /\ pc = "commit") \/ (act = "local" /\ pc = "walk0")

FlagOf(a) == IF a = "cloud" THEN 1 ELSE 0

----------------------------------------------------------------------------
(* Properties.                                                             *)

\* C1: when markContentsAs (baseId, v) has returned on an acyclic ledger, the
\* current row of baseId and of everything reachable from it through current
\* parent links has cloudOnly = v in the connection.
C1_SubtreeMarked ==
  (MarkReturned /\ Acyclic) =>
     \A e \in Subtree(baseId) : txn[Cur(e)] = FlagOf(act)

\* C1 witness: a mark has returned on a subtree with a nested folder, a file
\* and a superseded row, and it changed a flag.
C1_Witness ==
  /\ MarkReturned /\ Acyclic
  /\ \E e \in Subtree(baseId) \ {baseId} :
       sync[Cur(e)].entityType = "folder" /\ Children(e) # {}
  /\ \E e \in Subtree(baseId) : pre[Cur(e)] # FlagOf(act)
  /\ Len(sync) > 5

\* C2: after local (f) is committed, the current row of every ancestor of f
\* has cloudOnly = 0, and every row of an entity that is neither in the
\* subtree of f nor an ancestor of f has the flag it had before.
C2_AncestorClosure ==
  (pc = "done" /\ act = "local") =>
     /\ \A a \in Ancestors(baseId) : disk[Cur(a)] = 0
     /\ \A r \in RowIds :
          sync[r].fileId \notin (Subtree(baseId) \cup Ancestors(baseId)) => disk[r] = pre[r]

\* C2 witness: a committed local with two ancestors, one of which was
\* cloud-only, next to an entity outside that is still cloud-only.
C2_Witness ==
  /\ pc = "done" /\ act = "local"
  /\ Cardinality(Ancestors(baseId)) >= 2
  /\ \E a \in Ancestors(baseId) : pre[Cur(a)] = 1
  /\ \E e \in Known \ (Subtree(baseId) \cup Ancestors(baseId)) : disk[Cur(e)] = 1

\* what a whole cloud or local invocation writes
FullyUpdated ==
  [ r \in RowIds |->
      IF r \in CurRowsOf(Subtree(baseId)) THEN FlagOf(act)
      ELSE IF act = "local" /\ r \in CurRowsOf(Ancestors(baseId)) THEN 0
      ELSE pre[r] ]

\* C3: what is on disk is what was there when the invocation started or,
\* once a cloud or local invocation has committed, the fully updated table.
C3_AllOrNothing ==
  \/ disk = pre
  \/ pc = "done" /\ act # "ls" /\ baseId # NULL /\ disk = FullyUpdated

\* C3 witness: the connection holds some of the updates of a local, not all
\* of them, and the disk none.
C3_Witness ==
  /\ act = "local" /\ pc \in {"mark", "walk", "walkUpdate"}
  /\ txn # pre
  /\ txn # FullyUpdated
  /\ disk = pre

\* C4, as claimed: an invocation whose path does not resolve ends in a fatal
\* error, prints nothing and changes nothing.
C4_UnresolvedIsFatal ==
  (baseId = NULL /\ pc \in {"done", "failed"}) =>
     /\ pc = "failed"
     /\ out = << >>
     /\ disk = pre

\* C5: when markContentsAs (f, 0) has returned in the invocation that follows
\* a committed cloud (f), every current row of the subtree of f has
\* cloudOnly = 0 and every other row has the flag it had before the cloud;
\* the rows are the same rows.
C5_RoundTrip ==
  (act = "local" /\ pc = "walk0" /\ prev.base # NULL /\ prev.base = baseId) =>
     /\ DOMAIN txn = DOMAIN prev.pre
     /\ \A r \in RowIds :
          txn[r] = IF r \in CurRowsOf(Subtree(baseId)) THEN 0 ELSE prev.pre[r]

\* C5 witness: such a round trip over a subtree of three or more entities in
\* a ledger with a superseded row, with cloud-only rows outside the subtree.
C5_Witness ==
  /\ act = "local" /\ pc = "walk0" /\ prev.base # NULL /\ prev.base = baseId
  /\ Cardinality(Subtree(baseId)) >= 3
  /\ Len(sync) > 5
  /\ \E r \in RowIds \ CurRowsOf(Subtree(baseId)) : prev.pre[r] = 1 /\ txn[r] = 1

\* C6: getIdForPath returns a fileId exactly when the current path of some
\* entity is the queried path, and the current path of the fileId it returns
\* is the queried path.
C6_ResolveCurrentPath ==
  pc = "dispatch" =>
     /\ (baseId # NULL) <=> (\E e \in Known : sync[Cur(e)].filePath = path)
     /\ baseId # NULL => sync[Cur(baseId)].filePath = path

\* C6 witness: the path is recorded in a superseded row only, and the result
\* is None.
C6_Witness ==
  /\ pc = "dispatch"
  /\ baseId = NULL
  /\ \E r \in RowIds : sync[r].filePath = path

\* getFolderContent has returned to the running function
Returned ==
  IF stack # << >> /\ Top.phase # "enum" /\ Top.base # NULL THEN {Len(stack)} ELSE {}

\* the rows of a list
Range(q) == { q[n] : n \in 1 .. Len(q) }

\* C7: getFolderContent (f) returns the current row of every entity whose
\* current parent is f, each once, and nothing else.
C7_LiveChildren ==
  \A n \in Returned :
     /\ Range(stack[n].content) = CurRowsOf(Children(stack[n].base))
     /\ Len(stack[n].content) = Cardinality(Children(stack[n].base))

\* C7 witness: the folder has live children and a superseded row of an
\* entity that has left it.
C7_Witness ==
  \E n \in Returned :
     /\ stack[n].content # << >>
     /\ \E r \in RowIds :
          /\ sync[r].parentFolderId = stack[n].base
          /\ sync[r].fileId \notin Children(stack[n].base)

\* C8, as claimed: getLatestForId returns a row of the fileId with maximal
\* unixTime, and calls for the same fileId on the same table return the same
\* row.
C8_LatestDeterministic ==
  [][ \A e \in Entities :
        /\ lastLatest'[e] # 0 =>
             /\ sync[lastLatest'[e]].fileId = e
             /\ \A q \in RowIds : sync[q].fileId = e =>
                   sync[q].unixTime <= sync[lastLatest'[e]].unixTime
        /\ (lastLatest[e] # 0 /\ lastLatest'[e] # 0) => lastLatest'[e] = lastLatest[e] ]_vars

\* the names of the live children of f that are of type ty
ChildNames(f, ty) ==
  { sync[Cur(e)].fileName : e \in { c \in Children(f) : sync[Cur(c)].entityType = ty } }

\* C9: ls on a folder prints the names of its live folders, each with the
\* separator, in ascending order, then the names of its live files in
\* ascending order, and leaves the table as it was.
C9_Listing ==
  (pc = "done" /\ act = "ls" /\ baseId # NULL) =>
     LET D == ChildNames(baseId, "folder")
         F == ChildNames(baseId, "file")
         nd == Cardinality(D)
     IN  /\ Len(out) = nd + Cardinality(F)
         /\ \A n \in 1 .. Len(out) :
              IF n <= nd THEN out[n].slash /\ out[n].name \in D
              ELSE ~out[n].slash /\ out[n].name \in F
         /\ \A n, m \in 1 .. Len(out) :
              (n < m /\ out[n].slash = out[m].slash) => out[n].name < out[m].name
         /\ disk = pre
         /\ txn = pre

\* C9 witness: a listing of two folders and two files.
C9_Witness ==
  /\ pc = "done" /\ act = "ls" /\ baseId # NULL
  /\ Len(out) = 4
  /\ out[2].slash /\ ~out[3].slash

\* the folders of a set of entities
FoldersOf(S) == { e \in S : sync[Cur(e)].entityType = "folder" }

\* C10: on an acyclic ledger a local invocation whose path resolved calls
\* markContentsAs once for the base and once for every folder of its subtree,
\* ends the walk with the rows of the ancestors at the first parent that has
\* no row, and runs to its end unless it is interrupted.
C10_LocalTerminates ==
  /\ [](act = "local" /\ Acyclic =>
          /\ \A n, m \in 1 .. Len(visited) : n # m => visited[n] # visited[m]
          /\ pc = "walk0" =>
                Range(visited) = {baseId} \cup FoldersOf(Subtree(baseId))
          /\ pc = "walkUpdate" =>
                /\ parentId \notin Known
                /\ Range(ancIds) = CurRowsOf(Ancestors(baseId))
                /\ Len(ancIds) = Cardinality(Ancestors(baseId)))
  /\ (pc = "dispatch" /\ act = "local" /\ baseId # NULL /\ Acyclic)
        ~> (pc = "done" \/ err = "Aborted")

\* C10 witness: the walk has met a parent without rows (fileId 9) after
\* collecting an ancestor, and goes on to the update.
C10_Witness ==
  /\ pc = "walkUpdate" /\ act = "local" /\ Acyclic
  /\ parentId # NULL
  /\ Len(ancIds) >= 1

====
